---- MODULE Spec2Model ----
(***************************************************************************)
(* Model of `contract extend` (cmd/soroban-cli/src/commands/contract/       *)
(* extend.rs): Cmd::run, Cmd::ledgers_to_extend and                         *)
(* Cmd::run_against_rpc_server.  One invocation of the command is a single  *)
(* async flow that suspends at three transport calls (get_account,          *)
(* prepare_and_send_transaction, get_full_ledger_entries); every action     *)
(* below is the code that runs between two suspension points.               *)
(***************************************************************************)
EXTENDS Integers, Sequences, FiniteSets, TLC

VARIABLES
    pc,                 \* position of the invocation
    ledgers_to_extend,  \* Cmd.ledgers_to_extend (u32)
    ttl_ledger_only,    \* Cmd.ttl_ledger_only
    overflow_checks,    \* build profile: does `+` on i64 panic or wrap
    keys,               \* result of self.key.parse_keys()
    extend_to,          \* local `extend_to`
    log,                \* tracing::warn! / tracing::info! lines emitted
    tx,                 \* Option: the Transaction handed to the transport
    meta,               \* Option: the TransactionMeta returned by the transport
    entry,              \* Option: the FullLedgerEntries returned by the fallback
    calls,              \* transport calls issued so far, in order
    ret,                \* Option: value returned by run_against_rpc_server
    stdout,             \* lines printed by Cmd::run
    first               \* Option: result of an earlier resolution of `meta`

vars == <<pc, ledgers_to_extend, ttl_ledger_only, overflow_checks, keys,
          extend_to, log, tx, meta, entry, calls, ret, stdout, first>>

----------------------------------------------------------------------------
(* Bounds of the model *)

MaxChanges == 3     \* longest `changes` list of an operation meta
MaxOps     == 2     \* longest `operations` list of a transaction meta
MaxEntries == 2     \* longest `entries` list of a fallback snapshot
MaxKeys    == 2     \* longest list of ledger keys

----------------------------------------------------------------------------
(* Values *)

MAX_LEDGERS_TO_EXTEND == 535679

None == <<>>
Some(x) == <<x>>
Unwrap(o) == o[1]

\* An i64 close to 0 (top = FALSE: value off) or close to i64::MAX
\* (top = TRUE: value i64::MAX + off, off <= 0).
I64(top, off) == [top |-> top, off |-> off]

Ok(v)    == [kind |-> "Ok",    val |-> v, err |-> "none"]
Err(e)   == [kind |-> "Err",   val |-> 0, err |-> e]
Panic(m) == [kind |-> "Panic", val |-> 0, err |-> m]

\* LedgerEntryData: a TtlEntry or some other kind of entry
Ttl(x)       == [type |-> "Ttl", live_until_ledger_seq |-> x]
ContractData == [type |-> "ContractData", live_until_ledger_seq |-> 0]

\* LedgerEntryChange
State(d)   == [kind |-> "State",   data |-> d]
Updated(d) == [kind |-> "Updated", data |-> d]
Removed    == [kind |-> "Removed", data |-> ContractData]

RequestedLedgers == {0, 100, 1000, 535679, 535680, 2147483647}
Sequences_       == {41}   \* account sequence numbers, far below i64::MAX
LedgerChanges    == {State(Ttl(5000)), State(ContractData), Updated(Ttl(5000)),
                     Updated(Ttl(6000)), Updated(ContractData), Removed}
LiveUntil        == {5000, 6000}
LatestLedgers    == {I64(FALSE, 4000), I64(FALSE, 5900), I64(TRUE, 0),
                     I64(TRUE, 0 - 100)}

SeqsUpTo(S, n) == UNION {[1..k -> S] : k \in 0..n}

\* Non-empty lists of distinct ledger keys: key 1, key 2, ...
KeyLists == {[i \in 1..k |-> i] : k \in 1..MaxKeys}

\* OperationMeta lists: only the first operation's changes vary
OperationMeta(ch) == [changes |-> ch]
OperationLists ==
    {<<>>} \cup
    {[i \in 1..k |-> IF i = 1 THEN OperationMeta(ch) ELSE OperationMeta(<<>>)] :
        k \in 1..MaxOps, ch \in SeqsUpTo(LedgerChanges, MaxChanges)}

\* TransactionMeta::V0 .. V3
TransactionMetas ==
    [v : {3}, operations : OperationLists] \cup
    [v : {0, 1, 2},
     operations : {<<>>,
                   <<OperationMeta(<<State(Ttl(5000)), Updated(Ttl(6000))>>)>>,
                   <<OperationMeta(<<>>)>>}]

\* FullLedgerEntries
Snapshots ==
    [entries : SeqsUpTo([live_until_ledger_seq : LiveUntil], MaxEntries),
     latest_ledger : LatestLedgers]

----------------------------------------------------------------------------
(* Pure parts of the code *)

Min(a, b) == IF a < b THEN a ELSE b

\* Variant: the requested value is used unclamped
LedgersToExtend_NoClamp(requested) ==
    [res |-> requested, warn |-> FALSE]

\* Cmd::ledgers_to_extend: the clamped value and whether the warning fires
LedgersToExtend(requested) ==
    LET res == Min(requested, MAX_LEDGERS_TO_EXTEND)
    IN  [res |-> res, warn |-> res < requested]

\* The Transaction value built at lines 118-145
BuildTransaction(ks, ext, sequence, fee) ==
    [seq_num    |-> sequence + 1,
     fee        |-> fee,
     operations |-> <<[body |-> "ExtendFootprintTtl", extend_to |-> ext]>>,
     read_only  |-> ks,
     read_write |-> <<>>,
     instructions |-> 0, read_bytes |-> 0, write_bytes |-> 0,
     resource_fee |-> 0]

\* Variant: the two records are matched in the opposite order
MatchChanges_Swapped(changes) ==
    IF Len(changes) < 2
    THEN Panic("index out of bounds")
    ELSE IF /\ changes[1].kind = "Updated"
            /\ changes[1].data.type = "Ttl"
            /\ changes[2].kind = "State"
         THEN Ok(changes[1].data.live_until_ledger_seq)
         ELSE Err("LedgerEntryNotFound")

\* Variant: the value of the prior-state record is returned
MatchChanges_PriorState(changes) ==
    IF Len(changes) < 2
    THEN Panic("index out of bounds")
    ELSE IF /\ changes[1].kind = "State"
            /\ changes[2].kind = "Updated"
            /\ changes[2].data.type = "Ttl"
         THEN Ok(changes[1].data.live_until_ledger_seq)
         ELSE Err("LedgerEntryNotFound")

\* The match on (changes[0], changes[1]) at lines 177-190; indexing a
\* list past its end panics.
MatchChanges(changes) ==
    IF Len(changes) < 2
    THEN Panic("index out of bounds")
    ELSE IF /\ changes[1].kind = "State"
            /\ changes[2].kind = "Updated"
            /\ changes[2].data.type = "Ttl"
         THEN Ok(changes[2].data.live_until_ledger_seq)
         ELSE Err("LedgerEntryNotFound")

\* Variant: the comparison has its operands swapped
LessAfterAdd_Swapped(latest, ext, extension) ==
    IF latest.top
    THEN IF latest.off + ext > 0 THEN "overflow" ELSE "true"
    ELSE IF extension < latest.off + ext THEN "true" ELSE "false"

\* entry.latest_ledger + i64::from(extend_to) < i64::from(extension):
\* "overflow" when the sum exceeds i64::MAX, else the truth value.
LessAfterAdd(latest, ext, extension) ==
    IF latest.top
    THEN IF latest.off + ext > 0 THEN "overflow" ELSE "false"
    ELSE IF latest.off + ext < extension THEN "true" ELSE "false"

\* Lines 171-190 once get_full_ledger_entries has answered with `snap`
FallbackResult(snap, ext, checks, changes) ==
    IF Len(snap.entries) = 0
    THEN Panic("index out of bounds")
    ELSE LET extension == snap.entries[1].live_until_ledger_seq
             less == LessAfterAdd(snap.latest_ledger, ext, extension)
         IN  IF less = "overflow" /\ checks
             THEN Panic("attempt to add with overflow")
             ELSE IF less \in {"true", "overflow"}
                  THEN Ok(extension)
                  ELSE MatchChanges(changes)

\* Variant: the version of the metadata is not looked at
InterpretMeta_NoVersionCheck(m) ==
    IF Len(m.operations) = 0
    THEN [next |-> "return", ret |-> Err("LedgerEntryNotFound")]
    ELSE IF Len(m.operations[1].changes) = 0
    THEN [next |-> "fallback", ret |-> Err("none")]
    ELSE [next |-> "return", ret |-> MatchChanges(m.operations[1].changes)]

\* Variant: the fallback query is issued for a single change as well
InterpretMeta_FallbackOnShort(m) ==
    IF m.v # 3
    THEN [next |-> "return", ret |-> Err("LedgerEntryNotFound")]
    ELSE IF Len(m.operations) = 0
    THEN [next |-> "return", ret |-> Err("LedgerEntryNotFound")]
    ELSE IF Len(m.operations[1].changes) <= 1
    THEN [next |-> "fallback", ret |-> Err("none")]
    ELSE [next |-> "return", ret |-> MatchChanges(m.operations[1].changes)]

\* Variant: the fallback query is issued whenever the changes hold no
\* TTL update
InterpretMeta_FallbackOnMismatch(m) ==
    IF m.v # 3
    THEN [next |-> "return", ret |-> Err("LedgerEntryNotFound")]
    ELSE IF Len(m.operations) = 0
    THEN [next |-> "return", ret |-> Err("LedgerEntryNotFound")]
    ELSE IF \/ Len(m.operations[1].changes) = 0
            \/ MatchChanges(m.operations[1].changes).kind = "Err"
    THEN [next |-> "fallback", ret |-> Err("none")]
    ELSE [next |-> "return", ret |-> MatchChanges(m.operations[1].changes)]

\* Lines 159-169: what the code does with the metadata: return at once,
\* or issue the fallback query.
InterpretMeta(m) ==
    IF m.v # 3
    THEN [next |-> "return", ret |-> Err("LedgerEntryNotFound")]
    ELSE IF Len(m.operations) = 0
    THEN [next |-> "return", ret |-> Err("LedgerEntryNotFound")]
    ELSE IF Len(m.operations[1].changes) = 0
    THEN [next |-> "fallback", ret |-> Err("none")]
    ELSE [next |-> "return", ret |-> MatchChanges(m.operations[1].changes)]

----------------------------------------------------------------------------
(* The invocation *)

Init ==
    /\ pc = "start"
    /\ ledgers_to_extend \in RequestedLedgers
    /\ ttl_ledger_only \in BOOLEAN
    /\ overflow_checks \in BOOLEAN
    /\ keys = None
    /\ extend_to = 0
    /\ log = <<>>
    /\ tx = None
    /\ meta = None
    /\ entry = None
    /\ calls = <<>>
    /\ ret = None
    /\ stdout = <<>>
    /\ first = None

\* Lines 104-115: configuration, keys, clamping, then get_account is issued
Start ==
    /\ pc = "start"
    /\ \/ \E e \in {"Config", "Key", "Rpc"} :
            /\ ret' = Some(Err(e))
            /\ pc' = "returned"
            /\ UNCHANGED <<keys, extend_to, log, calls>>
       \/ \E ks \in KeyLists :
            /\ keys' = Some(ks)
            /\ extend_to' = LedgersToExtend(ledgers_to_extend).res
            /\ log' = IF LedgersToExtend(ledgers_to_extend).warn
                      THEN Append(log, "warn: Ledgers to extend is too large")
                      ELSE log
            /\ calls' = Append(calls, "get_account")
            /\ pc' = "await_get_account"
            /\ UNCHANGED ret
    /\ UNCHANGED <<ledgers_to_extend, ttl_ledger_only, overflow_checks, tx,
                   meta, entry, stdout, first>>

\* Lines 115-149: get_account answers; on success the transaction is built
\* and prepare_and_send_transaction is issued
AccountReturned ==
    /\ pc = "await_get_account"
    /\ \/ /\ ret' = Some(Err("Rpc"))
          /\ pc' = "returned"
          /\ UNCHANGED <<tx, calls>>
       \/ \E sequence \in Sequences_, fee \in {100} :
            /\ tx' = Some(BuildTransaction(Unwrap(keys), extend_to, sequence, fee))
            /\ calls' = Append(calls, "prepare_and_send_transaction")
            /\ pc' = "await_send"
            /\ UNCHANGED ret
    /\ UNCHANGED <<ledgers_to_extend, ttl_ledger_only, overflow_checks, keys,
                   extend_to, log, meta, entry, stdout, first>>

\* Lines 159-170 applied to metadata m: return, or issue the fallback query
Resolve(m) ==
    LET r == InterpretMeta(m)
    IN  IF r.next = "fallback"
        THEN /\ calls' = Append(calls, "get_full_ledger_entries")
             /\ pc' = "await_entries"
             /\ ret' = None
        ELSE /\ ret' = Some(r.ret)
             /\ pc' = "returned"
             /\ UNCHANGED calls

\* Lines 147-170: prepare_and_send_transaction answers
TransactionReturned ==
    /\ pc = "await_send"
    /\ \/ /\ ret' = Some(Err("Rpc"))
          /\ pc' = "returned"
          /\ UNCHANGED <<meta, log, calls>>
       \/ \E m \in TransactionMetas, events \in {<<>>, <<"event">>} :
            /\ meta' = Some(m)
            /\ log' = IF events # <<>> THEN Append(log, "info: Events") ELSE log
            /\ Resolve(m)
    /\ UNCHANGED <<ledgers_to_extend, ttl_ledger_only, overflow_checks, keys,
                   extend_to, tx, entry, stdout, first>>

\* Lines 170-190: get_full_ledger_entries answers
EntriesReturned ==
    /\ pc = "await_entries"
    /\ \/ /\ ret' = Some(Err("Rpc"))
          /\ UNCHANGED entry
       \/ \E snap \in Snapshots :
            /\ entry' = Some(snap)
            /\ ret' = Some(FallbackResult(snap, extend_to, overflow_checks,
                                          Unwrap(meta).operations[1].changes))
    /\ pc' = "returned"
    /\ UNCHANGED <<ledgers_to_extend, ttl_ledger_only, overflow_checks, keys,
                   extend_to, log, tx, meta, calls, stdout, first>>

\* Cmd::run, lines 83-90
Run ==
    /\ pc = "returned"
    /\ stdout' = IF Unwrap(ret).kind = "Ok"
                 THEN IF ttl_ledger_only
                      THEN Append(stdout, <<"", Unwrap(ret).val>>)
                      ELSE Append(stdout, <<"New ttl ledger: ", Unwrap(ret).val>>)
                 ELSE stdout
    /\ pc' = "done"
    /\ UNCHANGED <<ledgers_to_extend, ttl_ledger_only, overflow_checks, keys,
                   extend_to, log, tx, meta, entry, calls, ret, first>>

Next ==
    \/ Start
    \/ AccountReturned
    \/ TransactionReturned
    \/ EntriesReturned
    \/ Run

Spec == Init /\ [][Next]_vars
\* Resolving the metadata already held a second time (lines 159-170 again,
\* with a fresh answer of the transport to any fallback query)
ResolveAgain ==
    /\ pc = "done"
    /\ meta # None
    /\ first = None
    /\ first' = Some([ret |-> Unwrap(ret), entry |-> entry])
    /\ entry' = None
    /\ Resolve(Unwrap(meta))
    /\ UNCHANGED <<ledgers_to_extend, ttl_ledger_only, overflow_checks, keys,
                   extend_to, log, tx, meta, stdout>>

NextTwice == Next \/ ResolveAgain

SpecTwice == Init /\ [][NextTwice]_vars

----------------------------------------------------------------------------
(* Vocabulary of the properties *)

Returned == pc \in {"returned", "done"}

FallbackIssued == \E i \in 1..Len(calls) : calls[i] = "get_full_ledger_entries"

\* The metadata is V3 with at least one operation
Detailed == meta # None /\ Unwrap(meta).v = 3 /\ Len(Unwrap(meta).operations) > 0

FirstChanges == Unwrap(meta).operations[1].changes

\* changes = [State(_), Updated(Ttl{..})], exactly
TwoElementShape(ch) ==
    /\ Len(ch) = 2
    /\ ch[1].kind = "State"
    /\ ch[2].kind = "Updated"
    /\ ch[2].data.type = "Ttl"

\* latest_ledger + extend_to < live, over the mathematical integers
\* (a latest_ledger next to i64::MAX is above every u32)
SumBelow(latest, ext, live) == ~latest.top /\ latest.off + ext < live

ErrorKinds == {"Config", "Key", "Rpc", "Xdr", "Wasm", "KeyIsRequired",
               "CannotParseKey", "CannotParseXdrKey", "MissingOperationResult",
               "LedgerEntryNotFound"}

WarnLine == "warn: Ledgers to extend is too large"

----------------------------------------------------------------------------
(* Properties *)

\* C1: when the metadata is V3 with a first operation whose changes are
\* [State(_), Updated(Ttl{live_until_ledger_seq: X})], the call returns Ok(X)
\* and the fallback query get_full_ledger_entries is never issued.
C1_ChangesResolved ==
    (Detailed /\ TwoElementShape(FirstChanges)) =>
        /\ Returned
        /\ ret = Some(Ok(FirstChanges[2].data.live_until_ledger_seq))
        /\ ~FallbackIssued
        /\ entry = None

C1_Witness ==
    /\ pc = "done"
    /\ ledgers_to_extend = 1000
    /\ Detailed
    /\ FirstChanges = <<State(Ttl(5000)), Updated(Ttl(6000))>>
    /\ ret = Some(Ok(6000))

\* C2: with empty changes and a fallback snapshot for which
\* latest_ledger + extend_to < entries[0].live_until_ledger_seq, the call
\* returns exactly that live_until_ledger_seq.
C2_FallbackResolved ==
    (/\ Returned
     /\ Detailed
     /\ FirstChanges = <<>>
     /\ entry # None
     /\ Len(Unwrap(entry).entries) > 0
     /\ SumBelow(Unwrap(entry).latest_ledger, extend_to,
                 Unwrap(entry).entries[1].live_until_ledger_seq))
    => ret = Some(Ok(Unwrap(entry).entries[1].live_until_ledger_seq))

C2_Witness ==
    /\ pc = "done"
    /\ ledgers_to_extend = 100
    /\ Detailed
    /\ FirstChanges = <<>>
    /\ entry # None
    /\ Unwrap(entry).latest_ledger = I64(FALSE, 4000)
    /\ Len(Unwrap(entry).entries) > 0
    /\ Unwrap(entry).entries[1].live_until_ledger_seq = 6000
    /\ ret = Some(Ok(6000))

\* C3: with empty changes and a fallback snapshot for which
\* latest_ledger + extend_to >= live_until_ledger_seq, the call ends with
\* the error LedgerEntryNotFound.
C3_FallbackInconclusiveFails ==
    (/\ Returned
     /\ Detailed
     /\ FirstChanges = <<>>
     /\ entry # None
     /\ Len(Unwrap(entry).entries) > 0
     /\ ~SumBelow(Unwrap(entry).latest_ledger, extend_to,
                  Unwrap(entry).entries[1].live_until_ledger_seq))
    => ret = Some(Err("LedgerEntryNotFound"))

\* C4: every non-empty changes list of the first operation that is not the
\* two-element shape [State(_), Updated(Ttl{..})] ends the call with the
\* error LedgerEntryNotFound.
C4_OtherShapesFail ==
    (/\ Returned
     /\ Detailed
     /\ Len(FirstChanges) > 0
     /\ ~TwoElementShape(FirstChanges))
    => ret = Some(Err("LedgerEntryNotFound"))

\* C5: metadata that is not V3, or V3 with an empty operation list, ends the
\* call with LedgerEntryNotFound and the fallback query is never issued.
C5_OpaqueMetaFails ==
    (meta # None /\ (Unwrap(meta).v # 3 \/ Len(Unwrap(meta).operations) = 0)) =>
        /\ Returned
        /\ ret = Some(Err("LedgerEntryNotFound"))
        /\ ~FallbackIssued
        /\ entry = None

C5_Witness ==
    /\ pc = "done"
    /\ meta # None
    /\ Unwrap(meta).v = 2
    /\ Unwrap(meta).operations = <<OperationMeta(<<>>)>>
    /\ ret = Some(Err("LedgerEntryNotFound"))

\* C6: the submitted transaction has a single ExtendFootprintTtl operation
\* whose extend_to is min(requested, 535679); the warning is emitted exactly
\* when requested > 535679; clamping produces no error.
C6_Clamp ==
    /\ (\E i \in 1..Len(log) : log[i] = WarnLine) <=>
            (keys # None /\ ledgers_to_extend > 535679)
    /\ pc = "await_get_account" => ret = None
    /\ tx # None =>
        /\ Len(Unwrap(tx).operations) = 1
        /\ Unwrap(tx).operations[1].body = "ExtendFootprintTtl"
        /\ Unwrap(tx).operations[1].extend_to =
              IF ledgers_to_extend <= 535679 THEN ledgers_to_extend ELSE 535679

C6_Witness ==
    /\ tx # None
    /\ ledgers_to_extend = 535680
    /\ Unwrap(tx).operations[1].extend_to = 535679
    /\ log # <<>>
    /\ log[1] = WarnLine

\* C7: the transport calls are issued in the order get_account,
\* prepare_and_send_transaction, get_full_ledger_entries, each at most once;
\* the submission only after the account lookup succeeded, the fallback
\* query only after V3 metadata with a first operation with empty changes.
C7_CallOrder ==
    /\ \E n \in 0..3 :
          calls = SubSeq(<<"get_account", "prepare_and_send_transaction",
                           "get_full_ledger_entries">>, 1, n)
    /\ Len(calls) >= 2 => tx # None
    /\ (Len(calls) = 2 /\ pc = "await_send") => meta = None
    /\ Len(calls) = 3 => (Detailed /\ FirstChanges = <<>>)
    /\ (meta # None \/ entry # None) => Len(calls) >= 2
    /\ entry # None => Len(calls) = 3

C7_Witness ==
    /\ pc = "done"
    /\ calls = <<"get_account", "prepare_and_send_transaction",
                 "get_full_ledger_entries">>
    /\ entry # None

\* C8: every invocation ends in one of two outcomes, a resolved ledger
\* number or a typed error; there is no third outcome.
C8_TwoOutcomes ==
    Returned =>
        /\ ret # None
        /\ \/ Unwrap(ret).kind = "Ok"
           \/ Unwrap(ret).kind = "Err" /\ Unwrap(ret).err \in ErrorKinds

\* C9: a successful call returns a ledger number that is at least the
\* entry's live_until_ledger_seq before the call, p, provided the network
\* reports no live_until_ledger_seq below p for the entry; without the
\* fallback query the value returned is that of the Updated record.
PriorLiveUntil == {4000, 5000, 6000, 7000}

NeverLowered(p) ==
    /\ (Detailed /\ Len(FirstChanges) >= 2 /\ FirstChanges[2].data.type = "Ttl")
          => FirstChanges[2].data.live_until_ledger_seq >= p
    /\ (entry # None /\ Len(Unwrap(entry).entries) > 0)
          => Unwrap(entry).entries[1].live_until_ledger_seq >= p

C9_NotBelowPrior ==
    (Returned /\ ret # None /\ Unwrap(ret).kind = "Ok") =>
        /\ \A p \in PriorLiveUntil : NeverLowered(p) => Unwrap(ret).val >= p
        /\ ~FallbackIssued =>
              /\ Len(FirstChanges) >= 2
              /\ FirstChanges[2].kind = "Updated"
              /\ FirstChanges[2].data.type = "Ttl"
              /\ Unwrap(ret).val = FirstChanges[2].data.live_until_ledger_seq

C9_Witness ==
    /\ pc = "done"
    /\ Unwrap(ret) = Ok(6000)
    /\ FallbackIssued
    /\ NeverLowered(6000)

\* C10 (as stated): resolving the same metadata twice gives the same result
\* in every branch.
C10_SameOutcomeSameResult ==
    (first # None /\ ret # None) => Unwrap(ret) = Unwrap(first).ret

\* C10 (amended): resolving the same metadata twice gives the same result
\* when the metadata is not V3, has no operation or has non-empty changes;
\* with empty changes it does when the fallback query answers the same.
C10_SameOutcomeAndAnswerSameResult ==
    (first # None /\ ret # None) =>
        ((~Detailed \/ Len(FirstChanges) > 0 \/ entry = Unwrap(first).entry)
            => Unwrap(ret) = Unwrap(first).ret)

C10_Witness ==
    /\ first # None
    /\ pc = "done"
    /\ Detailed
    /\ FirstChanges = <<>>
    /\ entry # None
    /\ entry = Unwrap(first).entry
    /\ Unwrap(ret) = Ok(6000)

====
